---- MODULE Spec2Model ----
(***************************************************************************)
(* Model of the worker process supervisor of workerd-manager                *)
(* (crates/api/src/workerd.rs): the handlers run_cmd, exit_cmd and          *)
(* exit_all_cmd, the launch task spawned by run_cmd, and the two shared     *)
(* maps of AppState (chan_map, child_map) with their tokio mutexes; the     *)
(* handlers write_worker_config_capfile, write_worker_code and delete_file  *)
(* with the directory tree under WORKERD_DIR and the template cache.        *)
(*                                                                         *)
(* Strings are sequences of one-character strings, so that                 *)
(* String::replace("-", "") is computed and not assumed.                   *)
(***************************************************************************)
EXTENDS Naturals, Sequences, FiniteSets, TLC

(* ---------------- bounds of the model ---------------- *)

\* number of HTTP requests issued in one behaviour
MaxReqs == 3

\* number of PATCH /workers/:id edits of the worker table in one behaviour
MaxEdits == 1

(* ---------------- strings and identifiers ---------------- *)

\* worker.id.replace("-", "")
RECURSIVE Replace(_)
Replace(s) ==
    IF s = <<>> THEN <<>>
    ELSE IF Head(s) = "-" THEN Replace(Tail(s))
    ELSE <<Head(s)>> \o Replace(Tail(s))

\* ASCII lower-casing of one hex digit, as Uuid::parse_str reads it
LowerHex(c) ==
    CASE c = "A" -> "a"
      [] c = "B" -> "b"
      [] OTHER -> c

HexDigits == {"a", "b", "A", "B", "1", "2"}

\* number of hex digits of an identifier in the model (a UUID has 32,
\* in groups 8-4-4-4-12; the model keeps one group boundary)
UuidLen == 2

InvalidUuid == <<"invalid">>

\* Uuid::parse_str: accepts the simple and the hyphenated spelling, in either
\* case, and yields the same value for all spellings of one UUID
ParseUuid(s) ==
    LET d == Replace(s) IN
    IF /\ Len(d) = UuidLen
       /\ \A i \in 1..Len(d) : d[i] \in HexDigits
       /\ \/ s = d
          \/ s = <<d[1], "-", d[2]>>
    THEN [i \in 1..Len(d) |-> LowerHex(d[i])]
    ELSE InvalidUuid

\* the request paths used by the clients of the model
IdA == <<"a", "-", "1">>
IdB == <<"b", "-", "2">>
Ids == {IdA, IdB}

\* Option<String>
None == <<>>
Some(x) == <<x>>

\* the columns of a row of the worker table that get_worker_with_id reads
Row(user_id, port) ==
    [user_id |-> user_id, host_name |-> <<"h">>, port |-> port,
     entry |-> <<"e.js">>, code |-> <<"c">>, template |-> None]

\* the worker table when the server starts: primary key |-> row
worker_db ==
    (<<"a", "1">> :> Row("u1", <<"8", "0">>)) @@ (<<"b", "2">> :> Row("u1", <<"8", "1">>))

\* AccessTokenClaims of the callers: the owner and another user
Owner == [sub |-> "u1", admin |-> FALSE]
Stranger == [sub |-> "u2", admin |-> FALSE]
Callers == {Owner, Stranger}

\* Query::find_worker_by_id on the table tbl: Err(DbErr) | Ok(None) | Ok(Some(row))
find_worker_by_id(tbl, id, dbOk) ==
    LET uuid == ParseUuid(id) IN
    IF uuid = InvalidUuid \/ ~dbOk THEN [tag |-> "DbErr"]
    ELSE IF uuid \in DOMAIN tbl
         THEN [tag |-> "Some", row |-> tbl[uuid]]
         ELSE [tag |-> "None"]

\* the struct Worker built from the request path and the row
Worker(id, row) ==
    [id |-> id, host_name |-> row.host_name, port |-> row.port,
     entry |-> row.entry, code |-> row.code, template |-> row.template]

\* get_worker_with_id: Err(ServerError) | Ok(Worker), Worker.id hyphen-free
get_worker_with_id(tbl, claims, id, dbOk) ==
    LET found == find_worker_by_id(tbl, id, dbOk) IN
    IF found.tag = "DbErr" THEN [ok |-> FALSE, err |-> "InternalServerError"]
    ELSE IF found.tag = "None" THEN [ok |-> FALSE, err |-> "NotFound"]
    ELSE IF claims.sub # found.row.user_id /\ ~claims.admin
         THEN [ok |-> FALSE, err |-> "Unauthorized"]
         ELSE [ok |-> TRUE, id |-> Replace(id),
               worker |-> [Worker(id, found.row) EXCEPT !.id = Replace(@)]]

\* .map_err(|err| ServerError::WorkerNotFound) of the five handlers
map_err_gate(err) == "WorkerNotFound"

(* ---------------- HashMap operations ---------------- *)

EmptyMap == <<>>

MapInsert(m, k, v) == [x \in (DOMAIN m) \cup {k} |-> IF x = k THEN v ELSE m[x]]

MapRemove(m, k) == [x \in (DOMAIN m) \ {k} |-> m[x]]

(* ---------------- templates ---------------- *)

\* a template text is a sequence of literal pieces and {{field}} expressions
Lit(text) == <<"lit", text>>
Var(field) == <<"var", field>>

\* an expression that is opened and never closed: "{{field"
Open(field) == <<"open", field>>

\* DEFAULT_TEMPLATE, with its eight expressions in their order and the text
\* between them shortened
DEFAULT_TEMPLATE ==
    << Lit("services name="), Var("id"), Lit(" worker=.worker"), Var("id"),
       Lit(" sockets name="), Var("id"), Lit(" address="), Var("host_name"),
       Lit(":"), Var("port"), Lit(" service="), Var("id"),
       Lit(" const worker"), Var("id"), Lit(" embed src/"), Var("entry") >>

\* a template text stored in the template column of a worker
CustomTemplate == << Lit("listen="), Var("port"), Lit(" script="), Var("entry") >>

\* a template text with a syntax error, and one that names a field the struct
\* Worker does not have
BadTemplate == << Lit("listen="), Open("port") >>
MissingFieldTemplate == << Lit("name="), Var("name"), Lit(" listen="), Var("port") >>

\* get_template_hash: SHA-256 of the text in lower-case hex; on the template
\* texts of the model the digests are these (distinct texts, distinct digests)
get_template_hash(template) ==
    CASE template = DEFAULT_TEMPLATE -> "sha256-default"
      [] template = CustomTemplate -> "sha256-custom"
      [] template = BadTemplate -> "sha256-bad"
      [] template = MissingFieldTemplate -> "sha256-missing"
      [] OTHER -> "sha256-other"

\* handlebars' default escape function, applied to every {{field}} value
HtmlEscape(c) ==
    CASE c = "&" -> "&amp;"
      [] c = "<" -> "&lt;"
      [] c = ">" -> "&gt;"
      [] c = "=" -> "&#x3D;"
      [] OTHER -> c

RECURSIVE Escape(_)
Escape(v) == IF v = <<>> THEN <<>> ELSE <<HtmlEscape(Head(v))>> \o Escape(Tail(v))

\* Handlebars::render of a compiled template with the Worker as its data: a
\* field the data lacks renders as the empty string (strict mode is off)
RECURSIVE render(_, _)
render(compiled, worker) ==
    IF compiled = <<>> THEN <<>>
    ELSE LET tok == Head(compiled) IN
         (IF tok[1] = "var"
          THEN (IF tok[2] \in DOMAIN worker THEN Escape(worker[tok[2]]) ELSE <<>>)
          ELSE <<tok[2]>>)
         \o render(Tail(compiled), worker)

\* Handlebars::register_template_string: Err(TemplateError) on a syntax error
register_template_string(template) ==
    IF \E i \in DOMAIN template : template[i][1] = "open"
    THEN [ok |-> FALSE]
    ELSE [ok |-> TRUE, compiled |-> template]

\* generate_worker_config that compiles the template on every call
generate_worker_config_uncached(cache, worker) ==
    LET w == [worker EXCEPT !.id = Replace(@)]
        template == IF worker.template = None THEN DEFAULT_TEMPLATE
                    ELSE worker.template[1]
        template_hash == get_template_hash(template)
        cache2 == [x \in (DOMAIN cache) \cup {template_hash} |->
                      IF x = template_hash THEN template ELSE cache[x]]
    IN  [panic |-> FALSE,
         config |-> render(cache2[template_hash], w),
         template_cache |-> cache2,
         compiled |-> {template_hash}]

\* generate_worker_config that renders with whichever compiled template the
\* cache holds, not with the one of the worker's digest
generate_worker_config_anyentry(cache, worker) ==
    LET w == [worker EXCEPT !.id = Replace(@)]
        template == IF worker.template = None THEN DEFAULT_TEMPLATE
                    ELSE worker.template[1]
        template_hash == get_template_hash(template)
        vacant == template_hash \notin DOMAIN cache
        cache2 == IF vacant THEN MapInsert(cache, template_hash, template) ELSE cache
    IN  [panic |-> FALSE,
         config |-> render(cache2[CHOOSE h \in DOMAIN cache2 : TRUE], w),
         template_cache |-> cache2,
         compiled |-> IF vacant THEN {template_hash} ELSE {}]

\* generate_worker_config with a cache of one entry: a miss evicts what the
\* cache held
generate_worker_config_evicting(cache, worker) ==
    LET w == [worker EXCEPT !.id = Replace(@)]
        template == IF worker.template = None THEN DEFAULT_TEMPLATE
                    ELSE worker.template[1]
        template_hash == get_template_hash(template)
        vacant == template_hash \notin DOMAIN cache
        handlebars == register_template_string(template)
        panic == vacant /\ ~handlebars.ok
        cache2 == IF vacant /\ handlebars.ok
                  THEN MapInsert(EmptyMap, template_hash, handlebars.compiled)
                  ELSE cache
    IN  [panic |-> panic,
         config |-> IF panic THEN <<>> ELSE render(cache2[template_hash], w),
         template_cache |-> cache2,
         compiled |-> IF vacant THEN {template_hash} ELSE {}]

\* generate_worker_config under the template_cache lock: the entry of the
\* template's digest, compiled and inserted if it is vacant, then rendered;
\* compiled is the set of digests register_template_string was called for.
\* The unwrap() of a failed register_template_string panics inside the
\* closure of or_insert_with: nothing is inserted, and the guard of the tokio
\* mutex drops with the unwinding (that mutex is not poisoned).
generate_worker_config(cache, worker) ==
    LET w == [worker EXCEPT !.id = Replace(@)]
        template == IF worker.template = None THEN DEFAULT_TEMPLATE
                    ELSE worker.template[1]
        template_hash == get_template_hash(template)
        vacant == template_hash \notin DOMAIN cache
        handlebars == register_template_string(template)
        panic == vacant /\ ~handlebars.ok
        cache2 == IF vacant /\ handlebars.ok
                  THEN MapInsert(cache, template_hash, handlebars.compiled)
                  ELSE cache
    IN  [panic |-> panic,
         config |-> IF panic THEN <<>> ELSE render(cache2[template_hash], w),
         template_cache |-> cache2,
         compiled |-> IF vacant THEN {template_hash} ELSE {}]

(* ---------------- the directory tree under WORKERD_DIR ---------------- *)

\* the directory name that write_worker_config_capfile and the launch task
\* join to WORKERD_DIR
WorkerInfoLiteral == "worker-info"

\* values of WORKER_INFO_DIR an operator may set
WorkerInfoDirs == {"worker-info", "info"}

\* paths are relative to WORKERD_DIR: sequences of components
CapfilePath(worker) == <<WorkerInfoLiteral, worker.id, "Capfile">>

CodePath(info_dir, worker) == <<info_dir, worker.id, "src", worker.entry>>

DeletePath(info_dir, worker) == <<info_dir, worker.id>>

\* Path::parent
Parent(path) == SubSeq(path, 1, Len(path) - 1)

\* Path::starts_with
StartsWith(path, base) ==
    Len(base) <= Len(path) /\ SubSeq(path, 1, Len(base)) = base

\* fs::create_dir_all: the directory and every missing ancestor
create_dir_all(ds, dir) == ds \cup {SubSeq(dir, 1, n) : n \in 1..Len(dir)}

\* fs::write: Err when the parent directory is missing or the device fails
write(ds, fl, path, content, ioOk) ==
    IF Parent(path) \notin ds THEN [err |-> "NotFound", files |-> fl]
    ELSE IF ~ioOk THEN [err |-> "Other", files |-> fl]
    ELSE [err |-> "none",
          files |-> [x \in (DOMAIN fl) \cup {path} |->
                        IF x = path THEN content ELSE fl[x]]]

\* fs::remove_dir_all: Err(NotFound) when the directory is missing, another
\* Err when permissions or the device fail, else the whole subtree is gone
remove_dir_all(ds, fl, dir, ioOk) ==
    IF dir \notin ds THEN [err |-> "NotFound", dirs |-> ds, files |-> fl]
    ELSE IF ~ioOk THEN [err |-> "Other", dirs |-> ds, files |-> fl]
    ELSE [err |-> "none",
          dirs |-> {d \in ds : ~StartsWith(d, dir)},
          files |-> [x \in {y \in DOMAIN fl : ~StartsWith(y, dir)} |-> fl[x]]]

\* .map_err(|err| ServerError::InternalServerError) of the three handlers
\* that use the file system
map_err_io(err) == "InternalServerError"

\* what the workerd process reads at <worker_dir>/Capfile when it starts
ReadCapfile(fl, id) ==
    LET path == <<WorkerInfoLiteral, id, "Capfile">> IN
    IF path \in DOMAIN fl THEN Some(fl[path]) ELSE None

(* ---------------- state ---------------- *)

VARIABLES
    reqs,       \* the requests issued so far: handler futures and their position
    tasks,      \* the launch tasks spawned by run_cmd, with their child process
    chan_map,   \* AppState.chan_map: worker id |-> oneshot sender (task index)
    child_map,  \* AppState.child_map: worker id |-> Child (task index)
    chanLock,   \* holder of the chan_map mutex: 0 or a request index
    childLock,  \* holder of the child_map mutex: 0 or a task index
    log,        \* the responses returned so far, in order
    db,         \* the worker table: primary key |-> row
    edits,      \* number of edits of the worker table so far
    worker_info_dir,  \* AppState.env.worker_info_dir
    dirs,       \* the directories that exist under WORKERD_DIR
    files,      \* the files that exist under WORKERD_DIR: path |-> content
    template_cache,   \* AppState.template_cache: digest |-> compiled template
    compiles,   \* digest |-> number of register_template_string calls so far
    gate_in,    \* the request whose access check is looked at on its own
    gate_out    \* the response of that request

\* the variables of the supervisor
supervisorVars == <<reqs, tasks, chan_map, child_map, chanLock, childLock, log>>

\* the worker table, the environment, the directory tree, the template cache
artifactVars == <<db, edits, worker_info_dir, dirs, files, template_cache, compiles>>

gateVars == <<gate_in, gate_out>>

vars == <<reqs, tasks, chan_map, child_map, chanLock, childLock, log,
          db, edits, worker_info_dir, dirs, files, template_cache, compiles,
          gate_in, gate_out>>

Free == 0

\* no request is looked at on its own, and no response was given
NoGate == [op |-> "none"]
NoResponse == "none"

\* everything but the environment: the maps are empty, the mutexes unlocked,
\* no request was made and nothing was written under WORKERD_DIR
InitState ==
    /\ reqs = <<>>
    /\ tasks = <<>>
    /\ chan_map = EmptyMap
    /\ child_map = EmptyMap
    /\ chanLock = Free
    /\ childLock = Free
    /\ log = <<>>
    /\ db = worker_db
    /\ edits = 0
    /\ dirs = {}
    /\ files = EmptyMap
    /\ template_cache = EmptyMap
    /\ compiles = EmptyMap

\* the server with WORKER_INFO_DIR set to the name the launch task uses
Init ==
    /\ InitState
    /\ worker_info_dir = WorkerInfoLiteral
    /\ gate_in = NoGate
    /\ gate_out = NoResponse

\* the server with any of the operator's values of WORKER_INFO_DIR
ArtifactInit ==
    /\ InitState
    /\ worker_info_dir \in WorkerInfoDirs
    /\ gate_in = NoGate
    /\ gate_out = NoResponse

(* ---------------- the handlers' critical sections ---------------- *)

\* run_cmd without the contains_key check
run_cmd_locked_nocheck(cm, id, t) ==
    [res |-> "Ok", chan_map |-> MapInsert(cm, id, t), launch |-> TRUE]

\* run_cmd that forgets to insert the sender
run_cmd_locked_noinsert(cm, id, t) ==
    IF id \in DOMAIN cm
    THEN [res |-> "WorkerStillRunning", chan_map |-> cm, launch |-> FALSE]
    ELSE [res |-> "Ok", chan_map |-> cm, launch |-> TRUE]

\* run_cmd under the chan_map lock: contains_key, else insert the sender of a
\* fresh oneshot channel (t names the channel and the task that owns its receiver)
run_cmd_locked(cm, id, t) ==
    IF id \in DOMAIN cm
    THEN [res |-> "WorkerStillRunning", chan_map |-> cm, launch |-> FALSE]
    ELSE [res |-> "Ok", chan_map |-> MapInsert(cm, id, t), launch |-> TRUE]

\* exit_cmd that answers Ok and clears the map when nothing is registered
exit_cmd_locked_lenient(cm, id) ==
    IF id \in DOMAIN cm
    THEN [res |-> "Ok", chan_map |-> MapRemove(cm, id), send |-> {cm[id]}]
    ELSE [res |-> "Ok", chan_map |-> EmptyMap, send |-> {}]

\* exit_cmd that looks the sender up and leaves it in the map
exit_cmd_locked_noremove(cm, id) ==
    IF id \in DOMAIN cm
    THEN [res |-> "Ok", chan_map |-> cm, send |-> {cm[id]}]
    ELSE [res |-> "WorkerNotRunning", chan_map |-> cm, send |-> {}]

\* the receiver of a task's channel is dropped when the task panics or ends
RxDropped(task) == task.pc \in {"panicked", "done"}

\* exit_cmd that treats a send on a channel without receiver as an error and
\* leaves the sender in the map
exit_cmd_locked_strict(cm, id) ==
    IF id \in DOMAIN cm /\ ~RxDropped(tasks[cm[id]])
    THEN [res |-> "Ok", chan_map |-> MapRemove(cm, id), send |-> {cm[id]}]
    ELSE [res |-> "WorkerNotRunning", chan_map |-> cm, send |-> {}]

\* exit_cmd under the chan_map lock: remove the sender and send on it
exit_cmd_locked(cm, id) ==
    IF id \in DOMAIN cm
    THEN [res |-> "Ok", chan_map |-> MapRemove(cm, id), send |-> {cm[id]}]
    ELSE [res |-> "WorkerNotRunning", chan_map |-> cm, send |-> {}]

\* exit_all_cmd that sends on every sender and leaves the senders in the map
exit_all_cmd_locked_nodrain(cm) ==
    [res |-> "Ok", chan_map |-> cm, send |-> {cm[k] : k \in DOMAIN cm}]

\* exit_all_cmd under the chan_map lock: drain the map, send on every sender
exit_all_cmd_locked(cm) ==
    [res |-> "Ok", chan_map |-> EmptyMap, send |-> {cm[k] : k \in DOMAIN cm}]

\* tx.send(()) on each channel of S
SendAll(ts, S) ==
    [t \in DOMAIN ts |-> IF t \in S THEN [ts[t] EXCEPT !.sent = @ + 1] ELSE ts[t]]

\* a run_cmd that spawns the process itself, before it answers
NewTask_spawned(worker) ==
    [id |-> worker.id, worker |-> worker, pc |-> "lock", child |-> "alive",
     sent |-> 0, cfg |-> None]

\* the future of the task that run_cmd hands to tokio::spawn
NewTask(worker) ==
    [id |-> worker.id, worker |-> worker, pc |-> "spawn", child |-> "none",
     sent |-> 0, cfg |-> None]

\* the response of request r, and the channels its handler sent on
\* (lost: the channels whose receiver was dropped with its task, where
\* tx.send(()) returns Err and the handler ignores it)
Respond(r, res, fired) ==
    log' = Append(log, [req |-> r, op |-> reqs[r].op, id |-> reqs[r].wid,
                        res |-> res, fired |-> fired,
                        lost |-> {t \in fired : RxDropped(tasks[t])}])

(* ---------------- requests ---------------- *)

\* the handler's future after get_worker_with_id(..).await.map_err(..)?:
\* every error of the access check is answered WorkerNotFound
\* the first await of a handler after its access check
FirstPc(op) ==
    CASE op = "config" -> "render"
      [] op = "code" -> "mkdir"
      [] op = "delete" -> "rm"
      [] OTHER -> "lock"

NoWorker == [id |-> <<>>]

\* a handler that answers the error of the access check and goes on with the
\* operation all the same
Admit_proceeding(op, id, claims, dbOk) ==
    LET w == get_worker_with_id(db, [claims EXCEPT !.admin = TRUE], id, TRUE) IN
    /\ Len(reqs) < MaxReqs
    /\ w.ok
    /\ reqs' = Append(reqs, [op |-> op, id |-> id, pc |-> FirstPc(op),
                             wid |-> w.id, worker |-> w.worker, content |-> <<>>])
    /\ log' = IF get_worker_with_id(db, claims, id, dbOk).ok THEN log
              ELSE Append(log, [req |-> Len(reqs) + 1, op |-> op, id |-> <<>>,
                                res |-> "WorkerNotFound", fired |-> {}, lost |-> {}])
    /\ UNCHANGED <<tasks, chan_map, child_map, chanLock, childLock>>
    /\ UNCHANGED <<artifactVars, gateVars>>

Admit(op, id, claims, dbOk) ==
    LET w == get_worker_with_id(db, claims, id, dbOk) IN
    /\ Len(reqs) < MaxReqs
    /\ reqs' = Append(reqs, [op |-> op, id |-> id,
                             pc |-> IF w.ok THEN FirstPc(op) ELSE "done",
                             wid |-> IF w.ok THEN w.id ELSE <<>>,
                             worker |-> IF w.ok THEN w.worker ELSE NoWorker,
                             content |-> <<>>])
    /\ log' = IF w.ok THEN log
              ELSE Append(log, [req |-> Len(reqs) + 1, op |-> op, id |-> <<>>,
                                res |-> map_err_gate(w.err), fired |-> {}, lost |-> {}])
    /\ UNCHANGED <<tasks, chan_map, child_map, chanLock, childLock>>
    /\ UNCHANGED <<artifactVars, gateVars>>

\* POST /workers/:id/exec arrives: run_cmd up to its chan_map.lock().await
RunRequest(id, claims, dbOk) == Admit("run", id, claims, dbOk)

\* DELETE /workers/:id/exec arrives: exit_cmd up to its chan_map.lock().await
ExitRequest(id, claims, dbOk) == Admit("exit", id, claims, dbOk)

\* exit_all_cmd is called: no path parameter and no access check
ExitAllRequest ==
    /\ Len(reqs) < MaxReqs
    /\ reqs' = Append(reqs, [op |-> "exit_all", id |-> <<>>, pc |-> "lock",
                             wid |-> <<>>, worker |-> NoWorker, content |-> <<>>])
    /\ UNCHANGED <<tasks, chan_map, child_map, chanLock, childLock, log>>
    /\ UNCHANGED <<artifactVars, gateVars>>

\* a handler that would also wait for the child_map mutex before it goes on
LockChanMap_both(r) ==
    /\ r \in DOMAIN reqs
    /\ reqs[r].pc = "lock"
    /\ chanLock = Free
    /\ childLock = Free
    /\ chanLock' = r
    /\ reqs' = [reqs EXCEPT ![r].pc = "crit"]
    /\ UNCHANGED <<tasks, chan_map, child_map, childLock, log>>
    /\ UNCHANGED <<artifactVars, gateVars>>

\* state.chan_map.lock().await
LockChanMap(r) ==
    /\ r \in DOMAIN reqs
    /\ reqs[r].pc = "lock"
    /\ chanLock = Free
    /\ chanLock' = r
    /\ reqs' = [reqs EXCEPT ![r].pc = "crit"]
    /\ UNCHANGED <<tasks, chan_map, child_map, childLock, log>>
    /\ UNCHANGED <<artifactVars, gateVars>>

\* run_cmd from the contains_key check to its return (the guard drops there)
RunCmd(r) ==
    /\ r \in DOMAIN reqs
    /\ reqs[r].op = "run"
    /\ reqs[r].pc = "crit"
    /\ LET e == run_cmd_locked(chan_map, reqs[r].wid, Len(tasks) + 1) IN
       /\ chan_map' = e.chan_map
       /\ tasks' = IF e.launch THEN Append(tasks, NewTask(reqs[r].worker)) ELSE tasks
       /\ Respond(r, e.res, {})
    /\ chanLock' = Free
    /\ reqs' = [reqs EXCEPT ![r].pc = "done"]
    /\ UNCHANGED <<child_map, childLock>>
    /\ UNCHANGED <<artifactVars, gateVars>>

\* an exit_cmd that also clears the directory tree under WORKERD_DIR
ExitCmd_cleaning(r) ==
    /\ r \in DOMAIN reqs
    /\ reqs[r].op = "exit"
    /\ reqs[r].pc = "crit"
    /\ LET e == exit_cmd_locked(chan_map, reqs[r].wid) IN
       /\ chan_map' = e.chan_map
       /\ tasks' = SendAll(tasks, e.send)
       /\ Respond(r, e.res, e.send)
    /\ chanLock' = Free
    /\ reqs' = [reqs EXCEPT ![r].pc = "done"]
    /\ dirs' = {}
    /\ files' = EmptyMap
    /\ UNCHANGED <<child_map, childLock>>
    /\ UNCHANGED <<db, edits, worker_info_dir, template_cache, compiles, gateVars>>

\* an exit_cmd that returns only once no process of the signalled task runs
ExitCmd_waiting(r) ==
    /\ r \in DOMAIN reqs
    /\ reqs[r].op = "exit"
    /\ reqs[r].pc = "crit"
    /\ LET e == exit_cmd_locked(chan_map, reqs[r].wid) IN
       /\ \A t \in e.send : tasks[t].child # "alive"
       /\ chan_map' = e.chan_map
       /\ tasks' = SendAll(tasks, e.send)
       /\ Respond(r, e.res, e.send)
    /\ chanLock' = Free
    /\ reqs' = [reqs EXCEPT ![r].pc = "done"]
    /\ UNCHANGED <<child_map, childLock>>
    /\ UNCHANGED <<artifactVars, gateVars>>

\* exit_cmd from the remove to its return
ExitCmd(r) ==
    /\ r \in DOMAIN reqs
    /\ reqs[r].op = "exit"
    /\ reqs[r].pc = "crit"
    /\ LET e == exit_cmd_locked(chan_map, reqs[r].wid) IN
       /\ chan_map' = e.chan_map
       /\ tasks' = SendAll(tasks, e.send)
       /\ Respond(r, e.res, e.send)
    /\ chanLock' = Free
    /\ reqs' = [reqs EXCEPT ![r].pc = "done"]
    /\ UNCHANGED <<child_map, childLock>>
    /\ UNCHANGED <<artifactVars, gateVars>>

\* exit_all_cmd from the drain to its return
ExitAllCmd(r) ==
    /\ r \in DOMAIN reqs
    /\ reqs[r].op = "exit_all"
    /\ reqs[r].pc = "crit"
    /\ LET e == exit_all_cmd_locked(chan_map) IN
       /\ chan_map' = e.chan_map
       /\ tasks' = SendAll(tasks, e.send)
       /\ Respond(r, e.res, e.send)
    /\ chanLock' = Free
    /\ reqs' = [reqs EXCEPT ![r].pc = "done"]
    /\ UNCHANGED <<child_map, childLock>>
    /\ UNCHANGED <<artifactVars, gateVars>>

(* ---------------- the launch task ---------------- *)

\* rx.await is ready once a value was sent on the channel
RxReady(task) == task.sent >= 1

\* child_map.insert(worker.id.clone(), child)
launch_insert(chm, id, t) == MapInsert(chm, id, t)

\* a launch task that leaves its handle in child_map
launch_remove_kept(chm, id) == chm

\* child_map.remove(&worker.id)
launch_remove(chm, id) == MapRemove(chm, id)

\* a kill that spares the process
Kill_spared(ts, c) == ts

\* child.kill(): SIGKILL to the process of the handle, if it still runs
Kill(ts, c) == [ts EXCEPT ![c].child = IF @ = "alive" THEN "killed" ELSE @]

\* a launch task that puts its handle in child_map as soon as the process is
\* spawned, before it has the lock
TaskSpawn_registering(t, ok) ==
    /\ t \in DOMAIN tasks
    /\ tasks[t].pc = "spawn"
    /\ tasks' = IF ok
                THEN [tasks EXCEPT ![t].pc = "lock", ![t].child = "alive",
                                   ![t].cfg = ReadCapfile(files, tasks[t].id)]
                ELSE [tasks EXCEPT ![t].pc = "panicked"]
    /\ child_map' = IF ok THEN launch_insert(child_map, tasks[t].id, t) ELSE child_map
    /\ UNCHANGED <<reqs, chan_map, chanLock, childLock, log>>
    /\ UNCHANGED <<artifactVars, gateVars>>

\* Command::new(..).args(..).spawn().map_err(..).unwrap(): the task panics
\* when the spawn fails, and its receiver is dropped with it
TaskSpawn(t, ok) ==
    /\ t \in DOMAIN tasks
    /\ tasks[t].pc = "spawn"
    /\ tasks' = IF ok
                THEN [tasks EXCEPT ![t].pc = "lock", ![t].child = "alive",
                                   ![t].cfg = ReadCapfile(files, tasks[t].id)]
                ELSE [tasks EXCEPT ![t].pc = "panicked"]
    /\ UNCHANGED <<reqs, chan_map, child_map, chanLock, childLock, log>>
    /\ UNCHANGED <<artifactVars, gateVars>>

\* a launch task that drops the child_map guard right after its insert
TaskLockChildMap_released(t) ==
    /\ t \in DOMAIN tasks
    /\ tasks[t].pc = "lock"
    /\ childLock = Free
    /\ child_map' = launch_insert(child_map, tasks[t].id, t)
    /\ tasks' = [tasks EXCEPT ![t].pc = "recv"]
    /\ UNCHANGED <<reqs, chan_map, chanLock, childLock, log>>
    /\ UNCHANGED <<artifactVars, gateVars>>

\* state.child_map.lock().await; child_map.insert(..): the guard lives to the
\* end of the task
TaskLockChildMap(t) ==
    /\ t \in DOMAIN tasks
    /\ tasks[t].pc = "lock"
    /\ childLock = Free
    /\ childLock' = t
    /\ child_map' = launch_insert(child_map, tasks[t].id, t)
    /\ tasks' = [tasks EXCEPT ![t].pc = "recv"]
    /\ UNCHANGED <<reqs, chan_map, chanLock, log>>
    /\ UNCHANGED <<artifactVars, gateVars>>

\* a launch task that, once signalled, also removes the chan_map entry of its
\* worker id
TaskRecv_unreserving(t) ==
    /\ t \in DOMAIN tasks
    /\ tasks[t].pc = "recv"
    /\ RxReady(tasks[t])
    /\ IF tasks[t].id \in DOMAIN child_map
       THEN /\ child_map' = launch_remove(child_map, tasks[t].id)
            /\ tasks' = [Kill(tasks, child_map[tasks[t].id]) EXCEPT ![t].pc = "kill"]
            /\ UNCHANGED childLock
       ELSE /\ tasks' = [tasks EXCEPT ![t].pc = "panicked"]
            /\ childLock' = Free
            /\ UNCHANGED child_map
    /\ chan_map' = MapRemove(chan_map, tasks[t].id)
    /\ UNCHANGED <<reqs, chanLock, log>>
    /\ UNCHANGED <<artifactVars, gateVars>>

\* let _ = rx.await; child_map.remove(&worker.id).unwrap(); child.kill() sends
\* the signal and then awaits the exit
TaskRecv(t) ==
    /\ t \in DOMAIN tasks
    /\ tasks[t].pc = "recv"
    /\ RxReady(tasks[t])
    /\ IF tasks[t].id \in DOMAIN child_map
       THEN /\ child_map' = launch_remove(child_map, tasks[t].id)
            /\ tasks' = [Kill(tasks, child_map[tasks[t].id]) EXCEPT ![t].pc = "kill"]
            /\ UNCHANGED childLock
       ELSE /\ tasks' = [tasks EXCEPT ![t].pc = "panicked"]
            /\ childLock' = Free
            /\ UNCHANGED child_map
    /\ UNCHANGED <<reqs, chan_map, chanLock, log>>
    /\ UNCHANGED <<artifactVars, gateVars>>

\* child.kill().await returns and the task ends: the child_map guard drops
TaskEnd(t) ==
    /\ t \in DOMAIN tasks
    /\ tasks[t].pc = "kill"
    /\ childLock' = Free
    /\ tasks' = [tasks EXCEPT ![t].pc = "done"]
    /\ UNCHANGED <<reqs, chan_map, child_map, chanLock, log>>
    /\ UNCHANGED <<artifactVars, gateVars>>

\* a process whose exit also removes the sender of its worker id from chan_map
ChildExit_releasing(t) ==
    /\ t \in DOMAIN tasks
    /\ tasks[t].child = "alive"
    /\ tasks' = [tasks EXCEPT ![t].child = "exited"]
    /\ chan_map' = MapRemove(chan_map, tasks[t].id)
    /\ UNCHANGED <<reqs, child_map, chanLock, childLock, log>>
    /\ UNCHANGED <<artifactVars, gateVars>>

\* the workerd process ends on its own
ChildExit(t) ==
    /\ t \in DOMAIN tasks
    /\ tasks[t].child = "alive"
    /\ tasks' = [tasks EXCEPT ![t].child = "exited"]
    /\ UNCHANGED <<reqs, chan_map, child_map, chanLock, childLock, log>>
    /\ UNCHANGED <<artifactVars, gateVars>>

(* ---------------- the handlers of the artifacts ---------------- *)

\* POST /workers/:id/config arrives: write_worker_config_capfile up to the
\* template_cache.lock().await of generate_worker_config
ConfigRequest(id, claims, dbOk) == Admit("config", id, claims, dbOk)

\* POST /workers/:id/code arrives: write_worker_code up to create_dir_all
CodeRequest(id, claims, dbOk) == Admit("code", id, claims, dbOk)

\* DELETE /workers/:id/file arrives: delete_file up to remove_dir_all
DeleteRequest(id, claims, dbOk) == Admit("delete", id, claims, dbOk)

\* the file a handler writes
ArtifactPath(req) ==
    IF req.op = "config" THEN CapfilePath(req.worker)
    ELSE CodePath(worker_info_dir, req.worker)

\* the content a handler writes
ArtifactContent(req) == IF req.op = "config" THEN req.content ELSE req.worker.code

\* register_template_string was called for the digests of S
Compiled(cnt, S) ==
    [h \in (DOMAIN cnt) \cup S |->
        (IF h \in DOMAIN cnt THEN cnt[h] ELSE 0) + (IF h \in S THEN 1 ELSE 0)]

\* generate_worker_configs: the template_cache guard is taken, the template
\* compiled if its entry is vacant, the config rendered, the guard dropped;
\* a panic unwinds the task of the request, which is never answered
GenerateWorkerConfigs(r) ==
    /\ r \in DOMAIN reqs
    /\ reqs[r].pc = "render"
    /\ LET g == generate_worker_config(template_cache, reqs[r].worker) IN
       /\ template_cache' = g.template_cache
       /\ compiles' = Compiled(compiles, g.compiled)
       /\ reqs' = IF g.panic
                  THEN [reqs EXCEPT ![r].pc = "panicked"]
                  ELSE [reqs EXCEPT ![r].pc = "mkdir", ![r].content = g.config]
    /\ UNCHANGED <<tasks, chan_map, child_map, chanLock, childLock, log>>
    /\ UNCHANGED <<db, edits, worker_info_dir, dirs, files, gateVars>>

\* fs::create_dir_all(path.parent().unwrap()).await.map_err(..)?
CreateDirAll(r, ioOk) ==
    /\ r \in DOMAIN reqs
    /\ reqs[r].pc = "mkdir"
    /\ IF ioOk
       THEN /\ dirs' = create_dir_all(dirs, Parent(ArtifactPath(reqs[r])))
            /\ reqs' = [reqs EXCEPT ![r].pc = "write"]
            /\ UNCHANGED log
       ELSE /\ Respond(r, map_err_io("Other"), {})
            /\ reqs' = [reqs EXCEPT ![r].pc = "done"]
            /\ UNCHANGED dirs
    /\ UNCHANGED <<tasks, chan_map, child_map, chanLock, childLock>>
    /\ UNCHANGED <<db, edits, worker_info_dir, files, template_cache, compiles, gateVars>>

\* fs::write(path, content).await.map_err(..)? and the Ok response
WriteFile(r, ioOk) ==
    /\ r \in DOMAIN reqs
    /\ reqs[r].pc = "write"
    /\ LET w == write(dirs, files, ArtifactPath(reqs[r]), ArtifactContent(reqs[r]), ioOk) IN
       /\ files' = w.files
       /\ Respond(r, IF w.err = "none" THEN "Ok" ELSE map_err_io(w.err), {})
    /\ reqs' = [reqs EXCEPT ![r].pc = "done"]
    /\ UNCHANGED <<tasks, chan_map, child_map, chanLock, childLock>>
    /\ UNCHANGED <<db, edits, worker_info_dir, dirs, template_cache, compiles, gateVars>>

\* fs::remove_dir_all(path).await.map_err(..)? and the Ok response
RemoveDirAll(r, ioOk) ==
    /\ r \in DOMAIN reqs
    /\ reqs[r].pc = "rm"
    /\ LET d == remove_dir_all(dirs, files, DeletePath(worker_info_dir, reqs[r].worker), ioOk) IN
       /\ dirs' = d.dirs
       /\ files' = d.files
       /\ Respond(r, IF d.err = "none" THEN "Ok" ELSE map_err_io(d.err), {})
    /\ reqs' = [reqs EXCEPT ![r].pc = "done"]
    /\ UNCHANGED <<tasks, chan_map, child_map, chanLock, childLock>>
    /\ UNCHANGED <<db, edits, worker_info_dir, template_cache, compiles, gateVars>>

\* the values a PATCH /workers/:id sets: another port, another template
PortEdit == [port |-> <<"9", "0">>, template |-> None]
TemplateEdit == [port |-> <<"8", "1">>, template |-> Some(CustomTemplate)]
BadTemplateEdit == [port |-> <<"8", "1">>, template |-> Some(BadTemplate)]
MissingFieldEdit == [port |-> <<"8", "1">>, template |-> Some(MissingFieldTemplate)]
TemplateEdits == {TemplateEdit, BadTemplateEdit, MissingFieldEdit}

\* Mutation::update_worker: the row keeps its id, entry and user_id
UpdateWorker(uuid, edit) ==
    /\ edits < MaxEdits
    /\ uuid \in DOMAIN db
    /\ db' = [db EXCEPT ![uuid].port = edit.port, ![uuid].template = edit.template]
    /\ edits' = edits + 1
    /\ UNCHANGED supervisorVars
    /\ UNCHANGED <<worker_info_dir, dirs, files, template_cache, compiles, gateVars>>

(* ---------------- the access check on its own ---------------- *)

Admin == [sub |-> "u3", admin |-> TRUE]

\* a well-formed id without a row, and a path that is no UUID
IdUnknown == <<"a", "-", "2">>
IdMalformed == <<"z">>

GateOps == {"config", "code", "delete", "run", "exit"}

GateInputs ==
    [op : GateOps, id : Ids \cup {IdUnknown, IdMalformed},
     claims : Callers \cup {Admin}, dbOk : BOOLEAN]

\* the verdict of the access check for the request
Verdict(in) ==
    LET w == get_worker_with_id(db, in.claims, in.id, in.dbOk) IN
    IF w.ok THEN "Ok" ELSE w.err

\* the first lines of each of the five handlers: the response when the
\* access check fails, "passed" when the handler goes on
handler_gate(in) ==
    LET w == get_worker_with_id(db, in.claims, in.id, in.dbOk) IN
    IF w.ok THEN "passed" ELSE map_err_gate(w.err)

GateInit ==
    /\ InitState
    /\ worker_info_dir = WorkerInfoLiteral
    /\ gate_in \in GateInputs
    /\ gate_out = NoResponse

GateStep ==
    /\ gate_in.op \in GateOps
    /\ gate_out = NoResponse
    /\ gate_out' = handler_gate(gate_in)
    /\ UNCHANGED <<supervisorVars, artifactVars, gate_in>>

GateNext == GateStep

GateSpec == GateInit /\ [][GateNext]_vars

(* ---------------- specifications ---------------- *)

Handlers ==
    \/ \E r \in 1..MaxReqs : LockChanMap(r)
    \/ \E r \in 1..MaxReqs : RunCmd(r)
    \/ \E r \in 1..MaxReqs : ExitCmd(r)
    \/ \E r \in 1..MaxReqs : ExitAllCmd(r)

LaunchTasks ==
    \/ \E t \in 1..MaxReqs, ok \in BOOLEAN : TaskSpawn(t, ok)
    \/ \E t \in 1..MaxReqs : TaskLockChildMap(t)
    \/ \E t \in 1..MaxReqs : TaskRecv(t)
    \/ \E t \in 1..MaxReqs : TaskEnd(t)

Next ==
    \/ \E id \in Ids, c \in Callers, dbOk \in BOOLEAN : RunRequest(id, c, dbOk)
    \/ \E id \in Ids, c \in Callers, dbOk \in BOOLEAN : ExitRequest(id, c, dbOk)
    \/ ExitAllRequest
    \/ Handlers
    \/ LaunchTasks
    \/ \E t \in 1..MaxReqs : ChildExit(t)

Spec == Init /\ [][Next]_vars

\* The tokio runtime polls every task that can make progress, and its Mutex
\* is fair (FIFO): a waiter gets the lock if the lock keeps being released.
\* Nothing obliges a client to send a request or a workerd process to exit.
Fairness ==
    /\ \A r \in 1..MaxReqs :
         /\ SF_vars(LockChanMap(r))
         /\ WF_vars(RunCmd(r))
         /\ WF_vars(ExitCmd(r))
         /\ WF_vars(ExitAllCmd(r))
    /\ \A t \in 1..MaxReqs :
         /\ WF_vars(\E ok \in BOOLEAN : TaskSpawn(t, ok))
         /\ SF_vars(TaskLockChildMap(t))
         /\ WF_vars(TaskRecv(t))
         /\ WF_vars(TaskEnd(t))

FairSpec == Init /\ [][Next]_vars /\ Fairness

ArtifactHandlers ==
    \/ \E r \in 1..MaxReqs : GenerateWorkerConfigs(r)
    \/ \E r \in 1..MaxReqs, ioOk \in BOOLEAN : CreateDirAll(r, ioOk)
    \/ \E r \in 1..MaxReqs, ioOk \in BOOLEAN : WriteFile(r, ioOk)
    \/ \E r \in 1..MaxReqs, ioOk \in BOOLEAN : RemoveDirAll(r, ioOk)

\* the three artifact handlers for two workers, with edits of the template of
\* one of them, under every value of WORKER_INFO_DIR
ArtifactNext ==
    \/ \E id \in Ids, c \in Callers, dbOk \in BOOLEAN : ConfigRequest(id, c, dbOk)
    \/ \E id \in Ids, c \in Callers, dbOk \in BOOLEAN : CodeRequest(id, c, dbOk)
    \/ \E id \in Ids, c \in Callers, dbOk \in BOOLEAN : DeleteRequest(id, c, dbOk)
    \/ ArtifactHandlers
    \/ UpdateWorker(<<"b", "2">>, TemplateEdit)

ArtifactSpec == ArtifactInit /\ [][ArtifactNext]_vars

\* the five routed handlers, exit_all_cmd and the launch tasks for one worker,
\* with edits of its port
ServerNext ==
    \/ \E c \in Callers, dbOk \in BOOLEAN : ConfigRequest(IdA, c, dbOk)
    \/ \E c \in Callers, dbOk \in BOOLEAN : CodeRequest(IdA, c, dbOk)
    \/ \E c \in Callers, dbOk \in BOOLEAN : DeleteRequest(IdA, c, dbOk)
    \/ \E c \in Callers, dbOk \in BOOLEAN : RunRequest(IdA, c, dbOk)
    \/ \E c \in Callers, dbOk \in BOOLEAN : ExitRequest(IdA, c, dbOk)
    \/ ExitAllRequest
    \/ Handlers
    \/ ArtifactHandlers
    \/ LaunchTasks
    \/ UpdateWorker(<<"a", "1">>, PortEdit)

ServerSpec == Init /\ [][ServerNext]_vars

\* the owner writes the Capfiles of two workers, and the template of one of
\* them is edited to any text the worker table accepts
TemplateNext ==
    \/ \E id \in Ids : ConfigRequest(id, Owner, TRUE)
    \/ \E r \in 1..MaxReqs : GenerateWorkerConfigs(r)
    \/ \E r \in 1..MaxReqs, ioOk \in BOOLEAN : CreateDirAll(r, ioOk)
    \/ \E r \in 1..MaxReqs, ioOk \in BOOLEAN : WriteFile(r, ioOk)
    \/ \E edit \in TemplateEdits : UpdateWorker(<<"b", "2">>, edit)

TemplateSpec == Init /\ [][TemplateNext]_vars

\* spellings of the UUID of one stored worker that Uuid::parse_str accepts:
\* hyphenated, simple, and upper-case hex
IdASimple == <<"a", "1">>
IdAUpper == <<"A", "-", "1">>
Spellings == {IdA, IdASimple, IdAUpper}

\* the owner starts and stops one stored worker under every spelling of its id
KeyNext ==
    \/ \E id \in Spellings : RunRequest(id, Owner, TRUE)
    \/ \E id \in Spellings : ExitRequest(id, Owner, TRUE)
    \/ ExitAllRequest
    \/ Handlers
    \/ LaunchTasks

KeySpec == Init /\ [][KeyNext]_vars

(* ---------------- vocabulary of the properties ---------------- *)

\* the keys of the two maps that the requests of the model can produce
Keys == {Replace(id) : id \in Ids}

\* the requests of operation op that passed the access check for worker id k
Admitted(op, k) == {r \in DOMAIN reqs : reqs[r].op = op /\ reqs[r].wid = k}

Answered(r) == \E i \in DOMAIN log : log[i].req = r

ResOf(r) == log[CHOOSE i \in DOMAIN log : log[i].req = r].res

\* the launch tasks started for worker id k
TasksOf(k) == {t \in DOMAIN tasks : tasks[t].id = k}

\* the handle of task t's child is in child_map
Registered(t) ==
    /\ tasks[t].id \in DOMAIN child_map
    /\ child_map[tasks[t].id] = t

\* the sender of task t's channel is in chan_map
Reserved(t) ==
    /\ tasks[t].id \in DOMAIN chan_map
    /\ chan_map[tasks[t].id] = t

RunOk(e, k) == e.op = "run" /\ e.id = k /\ e.res = "Ok"

ExitOk(e, k) == e.op = "exit" /\ e.id = k /\ e.res = "Ok"

(* ---------------- C1 ---------------- *)

\* C1: as long as no exit for worker id k was admitted and exit_all was not
\* called, the run requests for k, however they interleave, are answered Ok
\* exactly once and WorkerStillRunning every other time; exactly one launch task
\* (one Command::spawn call) exists for k, so that never more than one workerd
\* process is spawned, and exactly one once that call has succeeded.
C1_SingleFlight ==
    \A k \in Keys :
        (Admitted("exit", k) = {} /\ ~(\E r \in DOMAIN reqs : reqs[r].op = "exit_all"))
        =>
        LET done == {r \in Admitted("run", k) : Answered(r)}
            oks == {r \in done : ResOf(r) = "Ok"}
            still == {r \in done : ResOf(r) = "WorkerStillRunning"}
            spawned == {t \in TasksOf(k) : tasks[t].child # "none"}
        IN  done # {} =>
              /\ Cardinality(oks) = 1
              /\ Cardinality(still) = Cardinality(done) - 1
              /\ Cardinality(TasksOf(k)) = 1
              /\ Cardinality(spawned) <= 1
              /\ \A t \in TasksOf(k) :
                    tasks[t].pc \notin {"spawn", "panicked"} => spawned = {t}

\* three run requests for one worker are all answered, two of them with
\* WorkerStillRunning, and the one process runs
C1_Witness ==
    \E k \in Keys :
        /\ Cardinality(Admitted("run", k)) = 3
        /\ \A r \in Admitted("run", k) : Answered(r)
        /\ Cardinality({r \in Admitted("run", k) : ResOf(r) = "WorkerStillRunning"}) = 2
        /\ \E t \in TasksOf(k) : tasks[t].child = "alive" /\ Registered(t)

(* ---------------- C2 ---------------- *)

\* C2: at most one live workerd process launched by the supervisor exists per
\* worker id, in every reachable state.
C2_AtMostOneLive ==
    \A k \in Keys :
        Cardinality({t \in TasksOf(k) : tasks[t].child = "alive"}) <= 1

(* ---------------- C3 ---------------- *)

\* an exit request for task t's worker was answered Ok and sent on t's channel
StoppedByExit(t) ==
    \E i \in DOMAIN log : log[i].op = "exit" /\ log[i].res = "Ok" /\ t \in log[i].fired

\* C3: once exit_cmd has answered Ok for a worker whose process was spawned,
\* the handle of that process is eventually out of child_map and the process
\* is eventually not running, with the launch tasks scheduled fairly and
\* whatever the other requests are.
C3_TeardownLiveness ==
    \A t \in 1..MaxReqs :
        (t \in DOMAIN tasks /\ tasks[t].child # "none" /\ StoppedByExit(t))
        ~> ( /\ t \in DOMAIN tasks
             /\ tasks[t].child # "alive"
             /\ ~Registered(t) )

(* ---------------- C4 ---------------- *)

\* C4: when the spawn of a launch task has failed, the reservation made for it
\* (the sender of its channel in chan_map) is gone.
C4_SpawnFailureReleases ==
    \A t \in DOMAIN tasks :
        (tasks[t].pc = "panicked" /\ tasks[t].child = "none") => ~Reserved(t)

(* ---------------- C5 ---------------- *)

\* C5: an exit_cmd that reaches its critical section while no sender is
\* registered for its worker id answers WorkerNotRunning and leaves chan_map,
\* child_map, every launch task and every workerd process as they were.
C5_StopNotRunning ==
    [][\A r \in DOMAIN reqs :
          ( /\ reqs[r].op = "exit"
            /\ reqs[r].pc = "crit"
            /\ reqs'[r].pc = "done"
            /\ reqs[r].wid \notin DOMAIN chan_map )
          =>
          ( /\ log' = Append(log, [req |-> r, op |-> "exit", id |-> reqs[r].wid,
                                   res |-> "WorkerNotRunning", fired |-> {}, lost |-> {}])
            /\ chan_map' = chan_map
            /\ child_map' = child_map
            /\ tasks' = tasks )]_vars

\* an exit for a worker that was never started is answered WorkerNotRunning
\* while another worker's process runs
C5_Witness ==
    \E i \in DOMAIN log, k \in Keys :
        /\ log[i].op = "exit" /\ log[i].id = k /\ log[i].res = "WorkerNotRunning"
        /\ TasksOf(k) = {}
        /\ Admitted("run", k) = {}
        /\ \E t \in DOMAIN tasks : tasks[t].child = "alive" /\ Registered(t)

(* ---------------- C6 ---------------- *)

\* C6: between two exit requests for one worker id that are both answered Ok
\* a run request for that id was answered Ok, and no channel is ever sent on
\* twice.
C6_StopOnce ==
    /\ \A k \in Keys : \A i, j \in DOMAIN log :
          (i < j /\ ExitOk(log[i], k) /\ ExitOk(log[j], k))
          => \E m \in (i + 1)..(j - 1) : RunOk(log[m], k)
    /\ \A t \in DOMAIN tasks : tasks[t].sent <= 1

\* a worker was started, stopped, and stopped again: the second exit is
\* answered WorkerNotRunning
C6_Witness ==
    \E k \in Keys : \E h, i, j \in DOMAIN log :
        /\ h < i /\ i < j
        /\ RunOk(log[h], k)
        /\ ExitOk(log[i], k)
        /\ log[j].op = "exit" /\ log[j].id = k /\ log[j].res = "WorkerNotRunning"

(* ---------------- C7 ---------------- *)

\* a run for worker id k was answered Ok, the last Ok answer about k since is
\* an exit for k, and no run for k is in flight or can still arrive
RoundTripDone(k) ==
    /\ Len(reqs) = MaxReqs
    /\ \A r \in Admitted("run", k) : Answered(r)
    /\ \E i, j \in DOMAIN log :
          /\ i < j
          /\ RunOk(log[i], k)
          /\ ExitOk(log[j], k)
          /\ \A m \in (j + 1)..Len(log) : ~RunOk(log[m], k)

NoEntry(k) == k \notin DOMAIN chan_map /\ k \notin DOMAIN child_map

\* C7: after a run and then an exit for worker id k were answered Ok, and with
\* no further run for k, the system reaches a state from which neither
\* chan_map nor child_map ever has an entry for k again.
C7_RoundTrip ==
    \A k \in Keys : RoundTripDone(k) ~> [](NoEntry(k))

\* the round trip is over: the launch task of k has ended, its process is
\* killed and both maps are without k
C7_Witness ==
    \E k \in Keys :
        /\ RoundTripDone(k)
        /\ NoEntry(k)
        /\ \E t \in TasksOf(k) : tasks[t].pc = "done" /\ tasks[t].child = "killed"

(* ---------------- C8 ---------------- *)

\* C8: between two run requests for one worker id that are both answered Ok,
\* an exit for that id, or exit_all, was answered Ok.
C8_StartsAlternate ==
    \A k \in Keys : \A i, j \in DOMAIN log :
        (i < j /\ RunOk(log[i], k) /\ RunOk(log[j], k))
        => \E m \in (i + 1)..(j - 1) :
              ExitOk(log[m], k) \/ (log[m].op = "exit_all" /\ log[m].res = "Ok")

\* a worker was started, stopped and started again
C8_Witness ==
    \E k \in Keys : \E h, i, j \in DOMAIN log :
        /\ h < i /\ i < j
        /\ RunOk(log[h], k)
        /\ ExitOk(log[i], k)
        /\ RunOk(log[j], k)

(* ---------------- C10 ---------------- *)

\* an exit for task t's worker, or exit_all, was sent on t's channel or is on
\* its way
StopIssued(t) ==
    \/ tasks[t].sent >= 1
    \/ \E r \in DOMAIN reqs :
          /\ reqs[r].pc # "done"
          /\ \/ reqs[r].op = "exit_all"
             \/ reqs[r].op = "exit" /\ reqs[r].wid = tasks[t].id

\* C10: once the spawn of a launch task has succeeded, the handle of its
\* process is eventually in child_map, unless a stop for its worker is issued.
C10_HandleRegistered ==
    \A t \in 1..MaxReqs :
        (t \in DOMAIN tasks /\ tasks[t].pc = "lock")
        ~> (t \in DOMAIN tasks /\ (Registered(t) \/ StopIssued(t)))

(* ---------------- C9 ---------------- *)

\* C9: no handler holds the chan_map lock and no launch task holds the
\* child_map lock while it waits for the spawn or for its cancellation signal.
C9_NoLockWhileSuspended ==
    /\ \A r \in DOMAIN reqs : chanLock = r => reqs[r].pc = "crit"
    /\ \A t \in DOMAIN tasks :
          childLock = t =>
              /\ tasks[t].pc # "spawn"
              /\ ~(tasks[t].pc = "recv" /\ ~RxReady(tasks[t]))

(* ---------------- C11 ---------------- *)

\* a handler of run_cmd or exit_cmd that has not returned yet
Pending(r) == reqs[r].op \in {"run", "exit"} /\ reqs[r].pc \in {"lock", "crit"}

\* C11: a run or exit request that has not returned can always be moved on by
\* a step of the handlers alone, whatever the launch tasks of other workers are
\* doing (spawning, waiting for the child_map mutex, holding it while their
\* process runs): the chan_map mutex is only ever held by a handler inside its
\* critical section, which ends without waiting for anything, and no handler
\* waits for the child_map mutex.
C11_NoCrossBlocking ==
    /\ chanLock # Free => (chanLock \in DOMAIN reqs /\ reqs[chanLock].pc = "crit")
    /\ \A r \in DOMAIN reqs : reqs[r].pc = "crit" => chanLock = r
    /\ \A r \in DOMAIN reqs : Pending(r) => ENABLED Handlers

\* a request for one worker waits for the chan_map mutex, and can take it,
\* while the launch task of another worker holds the child_map mutex with its
\* process running, and a third launch is in the middle of its spawn
C11_Witness ==
    \E r \in DOMAIN reqs, t \in DOMAIN tasks :
        /\ Pending(r)
        /\ reqs[r].pc = "lock"
        /\ reqs[r].wid # tasks[t].id
        /\ tasks[t].pc = "recv"
        /\ tasks[t].child = "alive"
        /\ childLock = t
        /\ \E u \in DOMAIN tasks : tasks[u].pc \in {"spawn", "lock"}
        /\ ENABLED LockChanMap(r)

(* ---------------- C12 ---------------- *)

\* C12: when exit_cmd has answered Ok for a worker whose launch task has not
\* yet put the handle of its process into child_map, the process that task
\* spawns is eventually not running and the task's handle is eventually not in
\* child_map.
C12_NoOrphanOnRace ==
    \A t \in 1..MaxReqs :
        ( /\ t \in DOMAIN tasks
          /\ StoppedByExit(t)
          /\ tasks[t].pc \in {"spawn", "lock"} )
        ~> ( /\ t \in DOMAIN tasks
             /\ tasks[t].pc \notin {"spawn", "lock"}
             /\ tasks[t].child # "alive"
             /\ ~Registered(t) )

(* ---------------- C13 ---------------- *)

\* the answer of an exit_all_cmd call at position i of the log
ExitAllAt(i) == log[i].op = "exit_all" /\ log[i].res = "Ok"

\* the first answer after position i of the log that is about worker id k
FirstAbout(i, k, j) ==
    /\ i < j
    /\ log[j].id = k
    /\ \A m \in (i + 1)..(j - 1) : log[m].id # k

\* C13: the step in which exit_all_cmd returns leaves chan_map empty and has
\* sent exactly once on every channel whose sender was in chan_map, and on no
\* other; no channel is ever sent on twice; and for every worker id whose
\* sender it took, the next exit_cmd is answered WorkerNotRunning and the next
\* run_cmd is not answered WorkerStillRunning.
C13_ExitAllDrains ==
    /\ [][\A r \in DOMAIN reqs :
             ( /\ reqs[r].op = "exit_all"
               /\ reqs[r].pc = "crit"
               /\ reqs'[r].pc = "done" )
             =>
             ( /\ chan_map' = EmptyMap
               /\ \A t \in DOMAIN tasks :
                     tasks'[t].sent =
                        IF \E k \in DOMAIN chan_map : chan_map[k] = t
                        THEN 1 ELSE tasks[t].sent
               /\ log'[Len(log')].fired = {chan_map[k] : k \in DOMAIN chan_map} )]_vars
    /\ [](\A t \in DOMAIN tasks : tasks[t].sent <= 1)
    /\ [](\A i, j \in DOMAIN log : \A t \in DOMAIN tasks :
             ( /\ ExitAllAt(i)
               /\ t \in log[i].fired
               /\ FirstAbout(i, tasks[t].id, j) )
             => ( /\ log[j].op = "exit" => log[j].res = "WorkerNotRunning"
                  /\ log[j].op = "run" => log[j].res # "WorkerStillRunning" ))

\* a worker was started, exit_all_cmd sent on its channel, and the exit_cmd
\* for it that came next was answered WorkerNotRunning
C13_Witness ==
    \E h, i, j \in DOMAIN log : \E t \in DOMAIN tasks :
        /\ h < i
        /\ RunOk(log[h], tasks[t].id)
        /\ ExitAllAt(i)
        /\ t \in log[i].fired
        /\ tasks[t].sent = 1
        /\ FirstAbout(i, tasks[t].id, j)
        /\ log[j].op = "exit"
        /\ log[j].res = "WorkerNotRunning"
        /\ chan_map = EmptyMap

(* ---------------- C14 ---------------- *)

\* the template text of a worker: its own, or DEFAULT_TEMPLATE
TemplateOf(worker) ==
    IF worker.template = None THEN DEFAULT_TEMPLATE ELSE worker.template[1]

\* the Capfile of the Worker that a request got from the access check
Rendered(worker) == generate_worker_config(EmptyMap, worker).config

\* C14: the Capfile that a workerd process launched by run_cmd reads is the
\* rendering of the Worker that this run_cmd got from the worker table.
C14_StartWritesConfig ==
    \A t \in DOMAIN tasks :
        tasks[t].child # "none" => tasks[t].cfg = Some(Rendered(tasks[t].worker))

(* ---------------- C15 ---------------- *)

\* request r is a delete_file whose remove_dir_all returns in this step
DeleteStep(r) ==
    /\ reqs[r].op = "delete"
    /\ reqs[r].pc = "rm"
    /\ reqs'[r].pc = "done"

\* C15: when delete_file answers Ok, no file of its worker is left under
\* WORKERD_DIR: neither the Capfile nor the source file, whatever
\* WORKER_INFO_DIR is.
C15_DeleteRemovesAll ==
    [][\A r \in DOMAIN reqs :
          (DeleteStep(r) /\ log'[Len(log')].res = "Ok")
          => \A path \in DOMAIN files' : path[2] # reqs[r].wid]_vars

(* ---------------- C16 ---------------- *)

\* the responses with status 404 of ServerError::into_response
NotFoundClass == {"NotFound", "WorkerNotFound"}

\* C16: a delete_file whose directory does not exist is answered with an
\* error of the not-found class, and not with the error that stands for
\* permission and device failures.
C16_DeleteMissingNotFound ==
    [][\A r \in DOMAIN reqs :
          ( /\ DeleteStep(r)
            /\ DeletePath(worker_info_dir, reqs[r].worker) \notin dirs )
          => ( /\ log'[Len(log')].res \in NotFoundClass
               /\ log'[Len(log')].res # map_err_io("Other") )]_vars

(* ---------------- C17 ---------------- *)

\* C17: a handler whose access check fails answers the verdict of the check:
\* Unauthorized for a caller who is neither owner nor admin,
\* InternalServerError for a failed lookup, a not-found error for a missing
\* worker.
C17_GateVerdictSurfaced ==
    gate_out \notin {NoResponse, "passed"} =>
        LET verdict == Verdict(gate_in) IN
        /\ verdict = "Unauthorized" => gate_out = "Unauthorized"
        /\ verdict = "InternalServerError" => gate_out = "InternalServerError"
        /\ verdict = "NotFound" => gate_out \in NotFoundClass

(* ---------------- C18 ---------------- *)

\* C18: a request that the access check rejects (it is answered
\* WorkerNotFound) ends with that answer; the step that answers it leaves
\* chan_map, child_map, the template cache, the directory tree, both mutexes,
\* every launch task and process and every other request as they were.
C18_RejectionChangesNothing ==
    /\ [](\A i \in DOMAIN log :
             log[i].res = "WorkerNotFound" => reqs[log[i].req].pc = "done")
    /\ [][(Len(log') = Len(log) + 1 /\ log'[Len(log')].res = "WorkerNotFound")
          => ( /\ chan_map' = chan_map
               /\ child_map' = child_map
               /\ template_cache' = template_cache
               /\ compiles' = compiles
               /\ dirs' = dirs
               /\ files' = files
               /\ tasks' = tasks
               /\ chanLock' = chanLock
               /\ childLock' = childLock
               /\ \A r \in DOMAIN reqs : reqs'[r] = reqs[r] )]_vars

\* the Capfile is written and the process runs; a delete_file of a caller who
\* is not the owner was answered WorkerNotFound and all of it is still there
C18_Witness ==
    /\ Len(log) = MaxReqs
    /\ log[Len(log)].op = "delete"
    /\ log[Len(log)].res = "WorkerNotFound"
    /\ \E t \in DOMAIN tasks :
          /\ tasks[t].child = "alive"
          /\ Registered(t)
          /\ Reserved(t)
          /\ CapfilePath(tasks[t].worker) \in DOMAIN files
    /\ template_cache # EmptyMap

(* ---------------- C19 ---------------- *)

\* C19: a step of run_cmd, exit_cmd, exit_all_cmd or a launch task leaves the
\* directory tree as it was, and a file disappears only in the step in which
\* the remove_dir_all of a delete_file returns.
C19_StopKeepsArtifacts ==
    [][ /\ (\E r \in DOMAIN reqs :
              reqs[r].op \in {"run", "exit", "exit_all"} /\ reqs'[r] # reqs[r])
           => (dirs' = dirs /\ files' = files)
        /\ tasks' # tasks => (dirs' = dirs /\ files' = files)
        /\ (\E path \in DOMAIN files : path \notin DOMAIN files')
           => \E r \in DOMAIN reqs : DeleteStep(r) ]_vars

\* the Capfile was written, the worker started and stopped, its launch task
\* has ended, and the Capfile is still there
C19_Witness ==
    \E h, i, j \in DOMAIN log : \E t \in DOMAIN tasks :
        /\ h < i /\ i < j
        /\ log[h].op = "config" /\ log[h].res = "Ok"
        /\ RunOk(log[i], tasks[t].id)
        /\ ExitOk(log[j], tasks[t].id)
        /\ tasks[t].pc = "done"
        /\ CapfilePath(tasks[t].worker) \in DOMAIN files
        /\ files[CapfilePath(tasks[t].worker)] = Rendered(tasks[t].worker)

(* ---------------- C20 ---------------- *)

\* request r is a write_worker_config_capfile that has its rendered config
HasRendered(r) ==
    /\ reqs[r].op = "config"
    /\ reqs[r].wid # <<>>
    /\ reqs[r].pc \in {"mkdir", "write", "done"}

\* C20: register_template_string is called exactly once for every digest in
\* the cache, however many requests of however many workers rendered with
\* that template and however they interleaved; a request that finds the
\* digest of its template in the cache leaves the cache as it is and compiles
\* nothing.
C20_CompiledOnce ==
    /\ [](DOMAIN compiles = DOMAIN template_cache)
    /\ [](\A h \in DOMAIN compiles : compiles[h] = 1)
    /\ [](\A r \in DOMAIN reqs :
             HasRendered(r) =>
                get_template_hash(TemplateOf(reqs[r].worker)) \in DOMAIN compiles)
    /\ [][\A r \in DOMAIN reqs :
             ( /\ reqs[r].pc = "render"
               /\ reqs'[r].pc = "mkdir"
               /\ get_template_hash(TemplateOf(reqs[r].worker)) \in DOMAIN template_cache )
             => (template_cache' = template_cache /\ compiles' = compiles)]_vars

\* two workers with the same template text have their configs rendered, a
\* request with another template was rendered too, and each of the two
\* templates was compiled once
C20_Witness ==
    \E r1, r2, r3 \in DOMAIN reqs :
        /\ HasRendered(r1) /\ HasRendered(r2) /\ HasRendered(r3)
        /\ reqs[r1].wid # reqs[r2].wid
        /\ TemplateOf(reqs[r1].worker) = TemplateOf(reqs[r2].worker)
        /\ TemplateOf(reqs[r3].worker) # TemplateOf(reqs[r1].worker)
        /\ reqs[r1].content # reqs[r2].content
        /\ \A h \in DOMAIN compiles : compiles[h] = 1
        /\ Cardinality(DOMAIN template_cache) = 2

(* ---------------- C24 ---------------- *)

\* task t takes a step
TaskStep(t) == t \in DOMAIN tasks /\ tasks'[t].pc # tasks[t].pc

\* C24: no step of a launch task, the step after its rx.await included,
\* inserts into chan_map or removes from it: the steps of a task change
\* child_map, the child_map mutex and the task alone, so that the sender a
\* newer run_cmd of the same worker id put in chan_map is still there after
\* the older task was signalled and has ended.
C24_TaskLeavesChanMap ==
    /\ [][\A t \in DOMAIN tasks :
             TaskStep(t) => /\ chan_map' = chan_map
                            /\ chanLock' = chanLock
                            /\ reqs' = reqs
                            /\ log' = log]_vars
    /\ [][\A t, u \in DOMAIN tasks :
             (TaskStep(t) /\ t < u /\ tasks[t].id = tasks[u].id /\ Reserved(u))
             => Reserved(u)']_vars

\* a task was signalled by exit_cmd and has ended while the sender of a newer
\* task of the same worker id is in chan_map
C24_Witness ==
    \E t, u \in DOMAIN tasks :
        /\ t < u
        /\ tasks[t].id = tasks[u].id
        /\ tasks[t].sent >= 1
        /\ tasks[t].pc = "done"
        /\ Reserved(u)

(* ---------------- C25 ---------------- *)

\* request r is a run_cmd that returns Ok in this step
RunAcked(r) ==
    /\ reqs[r].op = "run"
    /\ reqs[r].pc = "crit"
    /\ reqs'[r].pc = "done"
    /\ log'[Len(log')].res = "Ok"

\* task t never had a process: Command::spawn was not called yet, or failed
NoProcess(t) == tasks[t].child = "none"

\* C25: run_cmd returns Ok in the step that inserts the sender and hands the
\* launch task to tokio::spawn: at that moment the task has not called
\* Command::spawn and no process of it exists. The response is given before
\* the outcome of the spawn is known and is never taken back or replaced:
\* responses are only appended, and no run_cmd is answered FailedStartWorker.
C25_AckBeforeSpawn ==
    /\ [][\A r \in DOMAIN reqs :
             RunAcked(r) =>
                /\ Len(tasks') = Len(tasks) + 1
                /\ tasks'[Len(tasks')].pc = "spawn"
                /\ tasks'[Len(tasks')].child = "none"
                /\ tasks'[Len(tasks')].id = reqs[r].wid
                /\ reqs[r].wid \in DOMAIN chan_map'
                /\ chan_map'[reqs[r].wid] = Len(tasks')]_vars
    /\ [][\A i \in DOMAIN log : log'[i] = log[i]]_vars
    /\ [](\A i \in DOMAIN log :
             log[i].op = "run" => log[i].res # "FailedStartWorker")

\* run_cmd was answered Ok for a worker whose launch task panicked at the
\* failed spawn: no process of that task ever existed
C25_Witness ==
    \E i \in DOMAIN log : \E t \in DOMAIN tasks :
        /\ RunOk(log[i], tasks[t].id)
        /\ tasks[t].pc = "panicked"
        /\ NoProcess(t)
        /\ \A u \in TasksOf(tasks[t].id) : NoProcess(u)

(* ---------------- C26 ---------------- *)

\* request r is an exit_cmd that finds a sender for its worker id and returns
\* in this step
ExitFindsSender(r) ==
    /\ reqs[r].op = "exit"
    /\ reqs[r].pc = "crit"
    /\ reqs'[r].pc = "done"
    /\ reqs[r].wid \in DOMAIN chan_map

\* C26: an exit_cmd that finds a sender registered for its worker id answers
\* Ok, whatever the state of the launch task that owns the receiver: also
\* when that task has panicked at a failed spawn, so that tx.send(()) returns
\* Err. The sender is removed all the same, and a run_cmd for the same worker
\* id that enters its critical section next is answered Ok.
C26_ExitAcksLostSignal ==
    /\ [][\A r \in DOMAIN reqs :
             ExitFindsSender(r) =>
                /\ log'[Len(log')].req = r
                /\ log'[Len(log')].res = "Ok"
                /\ log'[Len(log')].fired = {chan_map[reqs[r].wid]}
                /\ reqs[r].wid \notin DOMAIN chan_map'
                /\ run_cmd_locked(chan_map', reqs[r].wid, Len(tasks') + 1).res = "Ok"]_vars
    /\ [](\A i \in DOMAIN log : log[i].lost # {} => log[i].res = "Ok")

\* an exit_cmd was answered Ok although the launch task had already panicked
\* and the signal was lost, and a later run_cmd for the same worker id was
\* answered Ok
C26_Witness ==
    \E i, j \in DOMAIN log : \E t \in DOMAIN tasks :
        /\ i < j
        /\ ExitOk(log[i], tasks[t].id)
        /\ log[i].lost = {t}
        /\ tasks[t].pc = "panicked"
        /\ RunOk(log[j], tasks[t].id)

(* ---------------- C27 ---------------- *)

\* request r is an exit_cmd inside its critical section
ExitInCrit(r) == reqs[r].op = "exit" /\ reqs[r].pc = "crit"

\* C27: an exit_cmd that holds the chan_map lock can always return, whatever
\* the process of its worker does, and the step in which it returns changes
\* neither child_map nor the child_map mutex, nor the position or the process
\* of any launch task: it removes the sender and sends on it, no more.
C27_ExitDoesNotWait ==
    /\ [](\A r \in DOMAIN reqs : ExitInCrit(r) => ENABLED ExitCmd(r))
    /\ [][\A r \in DOMAIN reqs :
             (ExitInCrit(r) /\ reqs'[r].pc = "done") =>
                /\ child_map' = child_map
                /\ childLock' = childLock
                /\ DOMAIN tasks' = DOMAIN tasks
                /\ \A t \in DOMAIN tasks :
                      /\ tasks'[t].pc = tasks[t].pc
                      /\ tasks'[t].child = tasks[t].child]_vars

\* the last response is the Ok of an exit_cmd, and the process of the task it
\* signalled is alive with its handle in child_map
C27_Witness ==
    /\ log # <<>>
    /\ \E t \in DOMAIN tasks :
          /\ ExitOk(log[Len(log)], tasks[t].id)
          /\ log[Len(log)].fired = {t}
          /\ tasks[t].child = "alive"
          /\ Registered(t)

(* ---------------- C28 ---------------- *)

\* n requests were made and answered, and the last response is that of
\* exit_all_cmd
QuietAfterExitAll(n) ==
    /\ Len(reqs) = n
    /\ Len(log) = n
    /\ log[n].op = "exit_all"

\* no handle is in child_map and no process of a launch task runs
AllStopped ==
    /\ child_map = EmptyMap
    /\ \A t \in DOMAIN tasks : tasks[t].child # "alive"

\* C28: once exit_all_cmd has returned with every earlier request answered,
\* and for as long as no further request is made, the launch tasks, scheduled
\* fairly, kill every process that ran or was being spawned at that moment,
\* and child_map becomes empty.
C28_ExitAllStopsAll ==
    \A n \in 1..MaxReqs :
        QuietAfterExitAll(n) ~> (Len(reqs) > n \/ AllStopped)

\* exit_all_cmd was the last of the requests and signalled two launch tasks,
\* one whose process ran and one that had not yet spawned; both have ended,
\* their processes were killed and child_map is empty
C28_Witness ==
    /\ log # <<>>
    /\ Len(log) = Len(reqs)
    /\ log[Len(log)].op = "exit_all"
    /\ Cardinality(log[Len(log)].fired) = 2
    /\ \A t \in log[Len(log)].fired :
          tasks[t].pc = "done" /\ tasks[t].child = "killed"
    /\ AllStopped

(* ---------------- C30 ---------------- *)

\* the stored worker that the request of response e resolved to
StoredWorker(e) == ParseUuid(reqs[e.req].id)

\* C30: two requests whose ids are spellings of the same UUID, and so resolve
\* to the same row of the worker table, use the same key of chan_map; of two
\* run_cmd answered Ok for the same stored worker the later one comes after
\* an exit_cmd answered Ok for that worker, or after exit_all_cmd.
C30_KeyPerStoredWorker ==
    /\ \A r1, r2 \in DOMAIN reqs :
          ( /\ reqs[r1].wid # <<>> /\ reqs[r2].wid # <<>>
            /\ ParseUuid(reqs[r1].id) = ParseUuid(reqs[r2].id) )
          => reqs[r1].wid = reqs[r2].wid
    /\ \A i, j \in DOMAIN log :
          ( /\ i < j
            /\ log[i].op = "run" /\ log[i].res = "Ok"
            /\ log[j].op = "run" /\ log[j].res = "Ok"
            /\ StoredWorker(log[i]) = StoredWorker(log[j]) )
          => \E m \in DOMAIN log :
                /\ i < m /\ m < j
                /\ \/ log[m].op = "exit_all"
                   \/ /\ log[m].op = "exit" /\ log[m].res = "Ok"
                      /\ StoredWorker(log[m]) = StoredWorker(log[i])

(* ---------------- C21 ---------------- *)

\* the template text has a syntax error
Malformed(template) == \E i \in DOMAIN template : template[i][1] = "open"

\* the template text has an expression for a field that worker lacks
LacksField(template, worker) ==
    \E i \in DOMAIN template :
        template[i][1] = "var" /\ template[i][2] \notin DOMAIN worker

\* the error the rendering of worker's template is to fail with, or "none"
RenderError(worker) ==
    IF Malformed(TemplateOf(worker)) THEN "TemplateCompileError"
    ELSE IF LacksField(TemplateOf(worker), worker) THEN "TemplateRenderError"
    ELSE "none"

\* C21: a write_worker_config_capfile for a worker whose template has a
\* syntax error, or names a field the Worker lacks, does not panic and gets
\* no further than the rendering: it is answered TemplateCompileError,
\* respectively TemplateRenderError, and writes no Capfile. The digest of a
\* template with a syntax error never enters the cache, and no request
\* panics.
C21_TemplateErrorReturned ==
    /\ \A r \in DOMAIN reqs : reqs[r].pc # "panicked"
    /\ \A h \in DOMAIN template_cache : ~Malformed(template_cache[h])
    /\ get_template_hash(BadTemplate) \notin DOMAIN template_cache
    /\ \A r \in DOMAIN reqs :
          ( /\ reqs[r].op = "config"
            /\ reqs[r].wid # <<>>
            /\ RenderError(reqs[r].worker) # "none"
            /\ reqs[r].pc # "render" )
          => /\ reqs[r].pc = "done"
             /\ Answered(r)
             /\ ResOf(r) = RenderError(reqs[r].worker)

(* ---------------- C22 ---------------- *)

\* the directory of the worker in the path that the handler of request r, an
\* artifact request that passed the access check, reads or writes
WorkerDirOf(r) ==
    IF reqs[r].op = "delete"
    THEN DeletePath(worker_info_dir, reqs[r].worker)[2]
    ELSE ArtifactPath(reqs[r])[2]

\* C22: the config of a request is rendered with the hyphens of the request
\* id stripped, the row of the worker is looked up under the id as it was
\* requested, and the path that an artifact handler answered Ok has written
\* or removed names the directory of the worker by the id as it was
\* requested, hyphens included.
C22_HyphensOnlyInSymbols ==
    \A r \in DOMAIN reqs :
        (reqs[r].op \in {"config", "code", "delete"} /\ reqs[r].wid # <<>>) =>
            /\ ParseUuid(reqs[r].id) \in DOMAIN db
            /\ HasRendered(r) =>
                  reqs[r].content =
                     render(TemplateOf(reqs[r].worker),
                            [reqs[r].worker EXCEPT !.id = Replace(reqs[r].id)])
            /\ (Answered(r) /\ ResOf(r) = "Ok") => WorkerDirOf(r) = reqs[r].id

(* ---------------- C23 ---------------- *)

\* the Workers that the requests of the model were admitted with
AdmittedWorkers == {reqs[r].worker : r \in {q \in DOMAIN reqs : reqs[q].wid # <<>>}}

\* C23: the config rendered for a Worker is the same whatever the cache
\* holds at the time: a request that finds the digest of its template in the
\* cache and one that has to compile it get the same text, which is the
\* rendering with an empty cache; two requests admitted with the same Worker
\* have the same config, whatever was compiled between them.
C23_RenderDeterministic ==
    /\ [](\A w \in AdmittedWorkers :
             generate_worker_config(template_cache, w).config = Rendered(w))
    /\ [](\A r1, r2 \in DOMAIN reqs :
             (HasRendered(r1) /\ HasRendered(r2) /\ reqs[r1].worker = reqs[r2].worker)
             => reqs[r1].content = reqs[r2].content)
    /\ [][\A r \in DOMAIN reqs :
             (reqs[r].pc = "render" /\ reqs'[r].pc = "mkdir")
             => reqs'[r].content = Rendered(reqs[r].worker)]_vars

\* two requests with the same Worker have the same non-empty config, the
\* first of them rendered on a miss and the other on a hit (their template
\* was compiled once), and a second template is in the cache as well
C23_Witness ==
    \E r1, r2 \in DOMAIN reqs :
        /\ r1 < r2
        /\ HasRendered(r1) /\ HasRendered(r2)
        /\ reqs[r1].worker = reqs[r2].worker
        /\ reqs[r1].content = reqs[r2].content
        /\ reqs[r1].content # <<>>
        /\ compiles[get_template_hash(TemplateOf(reqs[r1].worker))] = 1
        /\ Cardinality(DOMAIN template_cache) = 2

(* ---------------- C29 ---------------- *)

\* C29: every entry of the template cache stays as it is in every step, so
\* that the cache only grows, and every key of the cache is the digest of the
\* template text that was compiled into its entry.
C29_CacheOnlyGrows ==
    /\ [][\A h \in DOMAIN template_cache :
             /\ h \in DOMAIN template_cache'
             /\ template_cache'[h] = template_cache[h]]_vars
    /\ [](\A h \in DOMAIN template_cache :
             get_template_hash(template_cache[h]) = h)

\* three configs were rendered, one of them after its template was edited:
\* the cache holds the two templates, each under its digest, and one of the
\* requests found its entry there
C29_Witness ==
    /\ Cardinality(DOMAIN template_cache) = 2
    /\ Cardinality({r \in DOMAIN reqs : HasRendered(r)}) = 3
    /\ \A r \in DOMAIN reqs :
          /\ get_template_hash(TemplateOf(reqs[r].worker)) \in DOMAIN template_cache
          /\ template_cache[get_template_hash(TemplateOf(reqs[r].worker))]
                = TemplateOf(reqs[r].worker)

(* ---------------- C31 ---------------- *)

\* task t goes on after its rx.await in this step
SignalFires(t) == tasks[t].pc = "recv" /\ tasks'[t].pc # "recv"

\* C31: a launch task that waits at rx.await holds the child_map lock and
\* has its own handle in child_map under its worker id. When its signal
\* fires, child_map.remove finds that handle: the unwrap() does not panic,
\* the process that is killed is the one this task spawned, and the process
\* of every other task, one of the same worker id included, is left as it is.
C31_TaskKillsOwnChild ==
    /\ [](\A t \in DOMAIN tasks :
             tasks[t].pc = "recv" => (Registered(t) /\ childLock = t))
    /\ [][\A t \in DOMAIN tasks :
             SignalFires(t) =>
                /\ tasks'[t].pc = "kill"
                /\ tasks'[t].child # "alive"
                /\ tasks[t].id \notin DOMAIN child_map'
                /\ \A u \in DOMAIN tasks :
                      u # t => tasks'[u].child = tasks[u].child]_vars

\* a worker was started, stopped and started again: the older task has found
\* its signal and killed its process, while the process that the newer task
\* spawned is alive
C31_Witness ==
    \E t, u \in DOMAIN tasks :
        /\ t < u
        /\ tasks[t].id = tasks[u].id
        /\ tasks[t].pc \in {"kill", "done"}
        /\ tasks[t].child = "killed"
        /\ tasks[u].child = "alive"

(* ---------------- C32 ---------------- *)

\* a handler of exit_cmd or exit_all_cmd returns in this step
StopReturns ==
    \E r \in DOMAIN reqs :
        /\ reqs[r].op \in {"exit", "exit_all"}
        /\ reqs[r].pc = "crit"
        /\ reqs'[r].pc = "done"

\* C32: a sender leaves chan_map, or is replaced there, only in a step of
\* exit_cmd or exit_all_cmd: not when the process exits on its own and not
\* when the launch task panics or ends. As long as the sender is there every
\* run_cmd for its worker id is answered WorkerStillRunning and starts no
\* task.
C32_ReservationOutlivesProcess ==
    /\ [][\A k \in DOMAIN chan_map :
             (k \notin DOMAIN chan_map' \/ chan_map'[k] # chan_map[k])
             => StopReturns]_vars
    /\ [][\A r \in DOMAIN reqs :
             ( /\ reqs[r].op = "run"
               /\ reqs[r].pc = "crit"
               /\ reqs'[r].pc = "done"
               /\ reqs[r].wid \in DOMAIN chan_map )
             => /\ log'[Len(log')].req = r
                /\ log'[Len(log')].res = "WorkerStillRunning"
                /\ tasks' = tasks
                /\ chan_map' = chan_map]_vars

\* the process of a worker has exited on its own and nobody stopped the
\* worker: its sender is still in chan_map, and the last response is the
\* WorkerStillRunning of a run_cmd for that worker
C32_Witness ==
    /\ log # <<>>
    /\ \E t \in DOMAIN tasks :
          /\ tasks[t].child = "exited"
          /\ Reserved(t)
          /\ log[Len(log)].op = "run"
          /\ log[Len(log)].id = tasks[t].id
          /\ log[Len(log)].res = "WorkerStillRunning"

(* ---------------- C33 ---------------- *)

\* C33: child_map never holds more than one handle, whatever the number of
\* workers that were started: the handle it holds is that of the task that
\* holds the child_map lock, and whenever the lock is free the map is empty.
C33_OneHandleAtATime ==
    /\ Cardinality(DOMAIN child_map) <= 1
    /\ childLock = Free => child_map = EmptyMap
    /\ \A k \in DOMAIN child_map :
          /\ childLock = child_map[k]
          /\ tasks[child_map[k]].id = k
          /\ tasks[child_map[k]].pc = "recv"

\* the processes of two workers are alive, one task holds the lock and its
\* handle is the only one in child_map, the other task waits for the lock
C33_Witness ==
    \E t, u \in DOMAIN tasks :
        /\ tasks[t].id # tasks[u].id
        /\ tasks[t].child = "alive"
        /\ tasks[u].child = "alive"
        /\ childLock = t
        /\ DOMAIN child_map = {tasks[t].id}
        /\ tasks[u].pc = "lock"

====
